---- MODULE Spec2Model ----
(***************************************************************************)
(* Bridge Play engine (src/game/game.py), its cards (src/game/card.py),    *)
(* observations and results (src/game/game_state.py) and the agents that   *)
(* play it (src/agents/*.py).                                              *)
(*                                                                         *)
(* The deck is scaled: the source has 13 ranks per suit, 13 cards per hand *)
(* and 13 tricks per game; the model keeps the four suits and the four     *)
(* seats and takes the NumRanks highest ranks, so that a hand holds        *)
(* NumRanks cards and a game has NumRanks tricks (every literal 13 of      *)
(* game.py is len(RANKS)).                                                 *)
(***************************************************************************)
EXTENDS Integers, Sequences, FiniteSets, TLC

\* ------------------------------------------------------------------ bounds
\* Ranks per suit (13 in the source): the NumRanks highest of 2..A.
NumRanks == 2
\* Integer seeds given at construction range over 0..MaxSeed (and None).
MaxSeed == 2
\* Size of the state space of the abstracted process-wide generator.
RngMod == 3
\* Calls of deal() on one engine (directly or through play_game).
MaxDeals == 2
\* Cards of PolicyDeck in play when a policy is called on its own.
PolicyCards == 9
\* Most cards in the observing seat's hand when a policy is called on its own.
PolicyHand == 4
\* Cards of each of two suits in the Dummy hand and in Defender1's hand in the
\* long-suit positions a policy is called on.
LongSuit == 5
\* Most cards the Lead hand holds in a suit other than the led one in the
\* positions in which Dummy discards.
LeadSuitMax == 3

\* ------------------------------------------------------- cards (card.py)
\* None, and an integer seed k as the one-element list <<k>>.
None == <<>>

Some(k) == <<k>>

\* Python truthiness of a seed: None and 0 are falsy.
Truthy(seed_value) == seed_value # None /\ seed_value[1] # 0

SUITS == <<"C", "D", "H", "S">>

AllRanks == <<"2", "3", "4", "5", "6", "7", "8", "9", "T", "J", "Q", "K", "A">>

RANKS == SubSeq(AllRanks, Len(AllRanks) - NumRanks + 1, Len(AllRanks))

\* rank_order of card.py: '2' -> 2, ..., 'T' -> 10, ..., 'A' -> 14.
rank_order_dict ==
    [rank \in {AllRanks[i] : i \in 1..Len(AllRanks)} |->
        1 + CHOOSE i \in 1..Len(AllRanks) : AllRanks[i] = rank]

rank_order(rank) == rank_order_dict[rank]

Card(suit, rank) == [suit |-> suit, rank |-> rank]

rank_value(card) == rank_order(card.rank)

\* card_value without its suit test: every card counts by its rank.
card_value_any_suit(card, led_suit) == rank_order(card.rank)

\* Card.card_value: the rank value in the led suit, 0 in any other suit.
card_value(card, led_suit) ==
    IF card.suit # led_suit THEN 0 ELSE rank_order(card.rank)

\* ------------------------------------------------------ seats (PlayerType)
DEFENDER_1 == 0
DUMMY == 1
DEFENDER_2 == 2
LEAD == 3

Seats == {DEFENDER_1, DUMMY, DEFENDER_2, LEAD}

\* Cards per hand and tricks per game: the literal 13 of deal and play_game.
HandSize == NumRanks

\* A loop of play_game that stops one trick early.
NumTricksShort == NumRanks - 1

NumTricks == NumRanks

\* A loop of play_trick that stops one turn early.
TrickSizeShort == 4 - 1

\* Turns of one trick: range(4) of play_trick.
TrickSize == 4

\* ------------------------------------------------------- list helpers
InSeq(x, seq) == \E i \in 1..Len(seq) : seq[i] = x

SeqSet(seq) == {seq[i] : i \in 1..Len(seq)}

\* No element twice.
Distinct(seq) == \A i, j \in 1..Len(seq) : i # j => seq[i] # seq[j]

\* list.remove(x): drops the first element equal to x.
RemoveFirst(seq, x) ==
    LET i == CHOOSE k \in 1..Len(seq) :
                 seq[k] = x /\ \A m \in 1..(k - 1) : seq[m] # x
    IN  SubSeq(seq, 1, i - 1) \o SubSeq(seq, i + 1, Len(seq))

\* max(seq, key=lambda c: c.rank_value()): the first card of the greatest rank.
MaxBy(seq) ==
    seq[CHOOSE i \in 1..Len(seq) :
            /\ \A k \in 1..Len(seq) : rank_value(seq[k]) <= rank_value(seq[i])
            /\ \A k \in 1..(i - 1) : rank_value(seq[k]) < rank_value(seq[i])]

\* max(trick, key=lambda c: c.card_value(led_suit)): the first card of the
\* greatest value in the led suit.
MaxByValue(seq, led_suit) ==
    seq[CHOOSE i \in 1..Len(seq) :
            /\ \A k \in 1..Len(seq) :
                   card_value(seq[k], led_suit) <= card_value(seq[i], led_suit)
            /\ \A k \in 1..(i - 1) :
                   card_value(seq[k], led_suit) < card_value(seq[i], led_suit)]

\* min(seq, key=lambda c: c.rank_value()): the first card of the least rank.
MinBy(seq) ==
    seq[CHOOSE i \in 1..Len(seq) :
            /\ \A k \in 1..Len(seq) : rank_value(seq[k]) >= rank_value(seq[i])
            /\ \A k \in 1..(i - 1) : rank_value(seq[k]) > rank_value(seq[i])]

\* ------------------------------------------------------------- the deck
\* create_deck: [Card(suit, rank) for suit in SUITS for rank in RANKS].
create_deck ==
    [k \in 1..(Len(SUITS) * NumRanks) |->
        Card(SUITS[((k - 1) \div NumRanks) + 1], RANKS[((k - 1) % NumRanks) + 1])]

DeckSet == SeqSet(create_deck)

\* ------------------------------------------- the process-wide generator
\* The module-level generator of `random`, abstracted to a counter of RngMod
\* states: every draw reads the state and advances it.
RngStates == 0..(RngMod - 1)

NextRng(s) == (s + 1) % RngMod

\* random.seed(seed): the state is a function of the seed alone.
SeedRng(seed_value) == seed_value[1] % RngMod

\* _randbelow(n) in state s.
Randbelow(n, s) == (7 * s + 3) % n

Swap(x, i, j) == [x EXCEPT ![i] = x[j], ![j] = x[i]]

\* random.shuffle(x): for i in reversed(range(1, len(x))):
\*     j = randbelow(i + 1); x[i], x[j] = x[j], x[i]      (0-based i, j)
RECURSIVE ShuffleFrom(_, _, _)
ShuffleFrom(x, i, s) ==
    IF i < 1 THEN [deck |-> x, rng |-> s]
    ELSE LET swapped == {Swap(x, i + 1, Randbelow(i + 1, s) + 1)}
         IN  CHOOSE r \in {ShuffleFrom(y, i - 1, NextRng(s)) : y \in swapped} : TRUE

shuffle(x, s) == ShuffleFrom(x, Len(x) - 1, s)

\* deal: `if seed: random.seed(seed)` -- None and 0 are both falsy.
RngForDeal(seed_value, s) ==
    IF Truthy(seed_value) THEN SeedRng(seed_value) ELSE s

\* deal with slices one card too close: deck[i*12:i*12+13].
DealHandsOverlap(deck) ==
    [i \in {0, 1, 2, 3} |->
        SubSeq(deck, i * (NumRanks - 1) + 1, i * (NumRanks - 1) + NumRanks)]

\* deal: self.hands[i] = deck[i*13:(i+1)*13].
DealHands(deck) ==
    [i \in Seats |-> SubSeq(deck, i * HandSize + 1, (i + 1) * HandSize)]


\* ------------------------------------------------------ the engine state
\* Policies a seat may hold: the four agents of src/agents and "any", an
\* arbitrary BridgePlayAgent (it may return any card, legal or not).
AgentKinds == {"any", "high", "low", "random", "rule"}

NoResult == [none |-> TRUE]

NoCall == [none |-> TRUE]

NoRunner == [none |-> TRUE]

VARIABLES
    contract,                    \* self.contract
    agents,                      \* self.agents: seat -> kind of policy
    seed,                        \* self.seed
    hands,                       \* self.hands: seat -> list of cards
    current_trick,               \* self.current_trick
    trick_history,               \* self.trick_history
    tricks_won,                  \* self.tricks_won: seat -> count
    current_player,              \* self.current_player
    trick_index,                 \* self.trick_index
    observation_action_history,  \* seat -> list of <<observation, card>>
    rng,                         \* state of the process-wide generator
    pc,                          \* "idle", "play_game", "play_trick", "aborted"
    in_game,                     \* play_trick was called by play_game
    loop_i,                      \* `for _ in range(13)` of play_game
    turn_i,                      \* `for _ in range(4)` of play_trick
    deals,                       \* calls of deal() on this engine so far
    result,                      \* the GameResult play_game returned
    earlier,                     \* the game the runner played before this one
    call,                        \* a call of agent.get_action outside a game
    runner                       \* the GameRunner whose run_game plays the game

engine_vars == <<contract, agents, seed, hands, current_trick, trick_history,
                 tricks_won, current_player, trick_index,
                 observation_action_history>>

vars == <<contract, agents, seed, hands, current_trick, trick_history,
          tricks_won, current_player, trick_index, observation_action_history,
          rng, pc, in_game, loop_i, turn_i, deals, result, earlier, call,
          runner>>

\* get_legal_actions without the follow-suit filter.
legal_actions_whole_hand(hand, trick) == hand

\* get_legal_actions without its last branch: only cards of the led suit are
\* legal, even when the hand holds none.
legal_actions_led_suit_only(hand, trick) ==
    IF trick = <<>> THEN hand
    ELSE SelectSeq(hand, LAMBDA card : card.suit = trick[1].suit)

\* ---------------------------------------------------- legal-action resolver
\* get_legal_actions on a hand and a trick (game.py 104-118).
legal_actions_of(hand, trick) ==
    IF trick = <<>> THEN hand
    ELSE LET led_suit == trick[1].suit
             cards_in_suit == SelectSeq(hand, LAMBDA card : card.suit = led_suit)
         IN  IF cards_in_suit # <<>> THEN cards_in_suit ELSE hand

get_legal_actions(player_id) == legal_actions_of(hands[player_id], current_trick)

\* ------------------------------------------------------- trick resolution
\* max(range(len(trick)), key=card_value(led_suit)): the first position of
\* the greatest value.
winner_position(trick) ==
    LET led_suit == trick[1].suit
        value(pos) == card_value(trick[pos], led_suit)
    IN  (CHOOSE pos \in 1..Len(trick) :
            /\ \A k \in 1..Len(trick) : value(k) <= value(pos)
            /\ \A k \in 1..(pos - 1) : value(k) < value(pos)) - 1

\* determine_trick_winner that gives every trick to the seat that led it.
determine_trick_winner_leader(trick) ==
    IF trick = <<>> THEN "ValueError" ELSE DEFENDER_1

\* The only condition under which determine_trick_winner raises ValueError.
determine_trick_winner_raises(trick) == trick = <<>>

determine_trick_winner(trick) ==
    IF determine_trick_winner_raises(trick) THEN "ValueError"
    ELSE winner_position(trick) % 4

\* get_observation showing every seat the Dummy seat's hand, Dummy included.
get_observation_own_dummy(player_id) ==
    [hand          |-> hands[player_id],
     current_trick |-> current_trick,
     tricks_played |-> trick_index,
     tricks_won    |-> IF player_id \in {DUMMY, LEAD}
                       THEN tricks_won[DUMMY] + tricks_won[LEAD]
                       ELSE tricks_won[DEFENDER_1] + tricks_won[DEFENDER_2],
     contract      |-> contract,
     legal_actions |-> legal_actions_of(hands[player_id], current_trick),
     player_id     |-> player_id,
     dummy_hand    |-> hands[DUMMY]]

\* get_observation reporting the observing seat's own count of tricks.
get_observation_individual(player_id) ==
    [hand          |-> hands[player_id],
     current_trick |-> current_trick,
     tricks_played |-> trick_index,
     tricks_won    |-> tricks_won[player_id],
     contract      |-> contract,
     legal_actions |-> legal_actions_of(hands[player_id], current_trick),
     player_id     |-> player_id,
     dummy_hand    |-> IF player_id = DUMMY THEN hands[LEAD] ELSE hands[DUMMY]]

\* ----------------------------------------------------- observation builder
\* get_observation (game.py 171-193); every list in it is a copy.
get_observation(player_id) ==
    [hand          |-> hands[player_id],
     current_trick |-> current_trick,
     tricks_played |-> trick_index,
     tricks_won    |-> IF player_id \in {DUMMY, LEAD}
                       THEN tricks_won[DUMMY] + tricks_won[LEAD]
                       ELSE tricks_won[DEFENDER_1] + tricks_won[DEFENDER_2],
     contract      |-> contract,
     legal_actions |-> get_legal_actions(player_id),
     player_id     |-> player_id,
     dummy_hand    |-> IF player_id = DUMMY THEN hands[LEAD] ELSE hands[DUMMY]]

\* ------------------------------------------------------------ the policies
\* HighCardAgent.get_action: max of the legal actions by rank value.
HighCardAgent(observation) == MaxBy(observation.legal_actions)

\* LowCardAgent.get_action: min of the legal actions by rank value.
LowCardAgent(observation) == MinBy(observation.legal_actions)

\* RandomAgent.get_action: random.choice(legal_actions) in generator state s.
RandomAgent(observation, s) ==
    observation.legal_actions[Randbelow(Len(observation.legal_actions), s) + 1]


\* _group_by_suit(cards).keys(): the suits of cards, each at its first card.
suit_keys(cards) ==
    LET firsts == SelectSeq([i \in 1..Len(cards) |-> i],
                     LAMBDA i : \A k \in 1..(i - 1) : cards[k].suit # cards[i].suit)
    IN  [n \in 1..Len(firsts) |-> cards[firsts[n]].suit]

\* _group_by_suit(cards).get(suit, []).
suit_cards(cards, suit) == SelectSeq(cards, LAMBDA card : card.suit = suit)

RECURSIVE SumRanks(_)
SumRanks(cards) ==
    IF cards = <<>> THEN 0 ELSE rank_value(Head(cards)) + SumRanks(Tail(cards))

\* weakness_score of get_action_defender1 for one suit of the dummy hand.
weakness_score(dummy_cards) ==
    (4 - Len(dummy_cards)) * 10 + (56 - SumRanks(dummy_cards))

\* RuleBasedAgent.get_action_defender1 (rule_based_agent.py 52-97).
get_action_defender1(observation) ==
    LET hand == observation.legal_actions
        dummy_hand == observation.dummy_hand
        my_suits == suit_keys(hand)
        aces == SelectSeq(hand, LAMBDA c : c.rank = "A")
        weak_aces == SelectSeq(aces,
                         LAMBDA ace : Len(suit_cards(dummy_hand, ace.suit)) <= 2)
        kq_suits == SelectSeq(my_suits,
                        LAMBDA suit : /\ InSeq(Card(suit, "K"), hand)
                                      /\ InSeq(Card(suit, "Q"), hand))
        score(suit) == weakness_score(suit_cards(dummy_hand, suit))
        scored == SelectSeq(my_suits,
                      LAMBDA suit :
                          /\ score(suit) > -1
                          /\ \A k \in 1..Len(my_suits) : score(my_suits[k]) <= score(suit))
    IN  IF aces # <<>>
        THEN IF weak_aces # <<>> THEN weak_aces[1] ELSE aces[1]
        ELSE IF kq_suits # <<>>
        THEN Card(kq_suits[1], "K")
        ELSE IF scored # <<>>
        THEN MaxBy(suit_cards(hand, scored[1]))
        ELSE MaxBy(hand)

\* get_action_dummy beating with the minimum card needed: its lowest beater.
get_action_dummy_lowest_beater(observation) ==
    LET hand == observation.legal_actions
        lead_hand == observation.dummy_hand
        d1_card == observation.current_trick[1]
        led_suit == d1_card.suit
        my_cards_in_suit == suit_cards(hand, led_suit)
        lead_cards_in_suit == suit_cards(lead_hand, led_suit)
        lead_can_beat == \E i \in 1..Len(lead_cards_in_suit) :
                            rank_value(lead_cards_in_suit[i]) > rank_value(d1_card)
        my_beating_cards == SelectSeq(my_cards_in_suit,
                                LAMBDA c : rank_value(c) > rank_value(d1_card))
    IN  IF my_cards_in_suit # <<>>
        THEN IF lead_can_beat THEN MinBy(my_cards_in_suit)
             ELSE IF my_beating_cards # <<>> THEN MinBy(my_beating_cards)
             ELSE MinBy(my_cards_in_suit)
        ELSE MinBy(hand)

\* get_action_dummy that does not look at the Lead hand before it beats
\* Defender1's card.
get_action_dummy_beats_anyway(observation) ==
    LET hand == observation.legal_actions
        lead_hand == observation.dummy_hand
        d1_card == observation.current_trick[1]
        my_cards_in_suit == suit_cards(hand, d1_card.suit)
        my_beating_cards == SelectSeq(my_cards_in_suit,
                                LAMBDA c : rank_value(c) > rank_value(d1_card))
        strong == SelectSeq(<<"S", "H", "D", "C">>,
                      LAMBDA suit : /\ Len(suit_cards(lead_hand, suit)) >= 3
                                    /\ suit_cards(hand, suit) # <<>>)
    IN  IF my_cards_in_suit # <<>>
        THEN IF my_beating_cards # <<>> THEN MaxBy(my_beating_cards)
             ELSE MinBy(my_cards_in_suit)
        ELSE IF strong # <<>>
        THEN MinBy(suit_cards(hand, strong[1]))
        ELSE MinBy(hand)

\* get_action_dummy scanning the suits for its discard from Clubs to Spades.
get_action_dummy_clubs_first(observation) ==
    LET hand == observation.legal_actions
        lead_hand == observation.dummy_hand
        d1_card == observation.current_trick[1]
        my_cards_in_suit == suit_cards(hand, d1_card.suit)
        lead_can_beat == \E i \in 1..Len(lead_hand) :
                            /\ lead_hand[i].suit = d1_card.suit
                            /\ rank_value(lead_hand[i]) > rank_value(d1_card)
        my_beating_cards == SelectSeq(my_cards_in_suit,
                                LAMBDA c : rank_value(c) > rank_value(d1_card))
        strong == SelectSeq(<<"C", "D", "H", "S">>,
                      LAMBDA suit : /\ Len(suit_cards(lead_hand, suit)) >= 3
                                    /\ suit_cards(hand, suit) # <<>>)
    IN  IF my_cards_in_suit # <<>>
        THEN IF lead_can_beat THEN MinBy(my_cards_in_suit)
             ELSE IF my_beating_cards # <<>> THEN MaxBy(my_beating_cards)
             ELSE MinBy(my_cards_in_suit)
        ELSE IF strong # <<>>
        THEN MinBy(suit_cards(hand, strong[1]))
        ELSE MinBy(hand)

\* RuleBasedAgent.get_action_dummy (rule_based_agent.py 113-157).
get_action_dummy(observation) ==
    LET hand == observation.legal_actions
        lead_hand == observation.dummy_hand
        d1_card == observation.current_trick[1]
        led_suit == d1_card.suit
        my_cards_in_suit == suit_cards(hand, led_suit)
        lead_cards_in_suit == suit_cards(lead_hand, led_suit)
        lead_can_beat == \E i \in 1..Len(lead_cards_in_suit) :
                            rank_value(lead_cards_in_suit[i]) > rank_value(d1_card)
        my_beating_cards == SelectSeq(my_cards_in_suit,
                                LAMBDA c : rank_value(c) > rank_value(d1_card))
        strong == SelectSeq(<<"S", "H", "D", "C">>,
                      LAMBDA suit : /\ Len(suit_cards(lead_hand, suit)) >= 3
                                    /\ suit_cards(hand, suit) # <<>>)
    IN  IF my_cards_in_suit # <<>>
        THEN IF lead_can_beat THEN MinBy(my_cards_in_suit)
             ELSE IF my_beating_cards # <<>> THEN MaxBy(my_beating_cards)
             ELSE MinBy(my_cards_in_suit)
        ELSE IF strong # <<>>
        THEN MinBy(suit_cards(hand, strong[1]))
        ELSE MinBy(hand)

\* follow_or_beat looking for its beating card in the whole hand it was dealt,
\* whatever the suit.
follow_or_beat_any_suit(observation, partner_pos) ==
    LET hand == observation.hand
        trick == observation.current_trick
        winning_card == MaxByValue(trick, trick[1].suit)
        beating == SelectSeq(hand,
                       LAMBDA c : rank_value(c) > rank_value(winning_card))
    IN  IF trick[partner_pos + 1] = winning_card THEN MinBy(hand)
        ELSE IF beating # <<>> THEN MinBy(beating)
        ELSE MinBy(hand)

\* follow_or_beat that beats the winning card with the highest card it can.
follow_or_beat_highest_beater(observation, partner_pos) ==
    LET hand == observation.legal_actions
        trick == observation.current_trick
        led_suit == trick[1].suit
        cards_in_suit == suit_cards(hand, led_suit)
        winning_card == MaxByValue(trick, led_suit)
        beating == SelectSeq(cards_in_suit,
                       LAMBDA c : rank_value(c) > rank_value(winning_card))
    IN  IF cards_in_suit # <<>>
        THEN IF trick[partner_pos + 1] = winning_card THEN MinBy(cards_in_suit)
             ELSE IF beating # <<>> THEN MaxBy(beating)
             ELSE MinBy(cards_in_suit)
        ELSE MinBy(hand)

\* follow_or_beat that never spends a high card: it follows with its lowest
\* card of the led suit.
follow_or_beat_conserve(observation, partner_pos) ==
    LET hand == observation.legal_actions
        cards_in_suit == suit_cards(hand, observation.current_trick[1].suit)
    IN  IF cards_in_suit # <<>> THEN MinBy(cards_in_suit) ELSE MinBy(hand)

\* The body shared by get_action_defender2 (partner at position 0) and
\* get_action_lead (partner at position 1) (rule_based_agent.py 171-196,
\* 210-234).
follow_or_beat(observation, partner_pos) ==
    LET hand == observation.legal_actions
        trick == observation.current_trick
        led_suit == trick[1].suit
        cards_in_suit == suit_cards(hand, led_suit)
        winning_card == MaxByValue(trick, led_suit)
        partner_winning == (trick[partner_pos + 1] = winning_card)
        beating == SelectSeq(cards_in_suit,
                       LAMBDA c : rank_value(c) > rank_value(winning_card))
    IN  IF cards_in_suit # <<>>
        THEN IF partner_winning THEN MinBy(cards_in_suit)
             ELSE IF beating # <<>> THEN MinBy(beating)
             ELSE MinBy(cards_in_suit)
        ELSE MinBy(hand)

get_action_defender2(observation) == follow_or_beat(observation, 0)

get_action_lead(observation) == follow_or_beat(observation, 1)

\* RuleBasedAgent.get_action: dispatch on the agent's own player_type.
RuleBasedAgent(player_type, observation) ==
    IF player_type = DEFENDER_1 THEN get_action_defender1(observation)
    ELSE IF player_type = DUMMY THEN get_action_dummy(observation)
    ELSE IF player_type = DEFENDER_2 THEN get_action_defender2(observation)
    ELSE get_action_lead(observation)

\* agent.get_action(observation) raises instead of returning: max, min and
\* random.choice of an empty list, and current_trick[0] of an empty trick.
agent_raises(kind, player_type, observation) ==
    /\ kind # "any"
    /\ \/ observation.legal_actions = <<>>
       \/ kind = "rule" /\ player_type # DEFENDER_1 /\ observation.current_trick = <<>>

\* The cards agent.get_action(observation) may return in generator state s.
agent_returns(kind, player_type, observation, s) ==
    IF kind = "any" THEN DeckSet
    ELSE IF agent_raises(kind, player_type, observation) THEN {}
    ELSE IF kind = "high" THEN {HighCardAgent(observation)}
    ELSE IF kind = "low" THEN {LowCardAgent(observation)}
    ELSE IF kind = "random" THEN {RandomAgent(observation, s)}
    ELSE {RuleBasedAgent(player_type, observation)}

\* The generator after agent.get_action: only random.choice draws from it.
rng_after_action(kind, s) == IF kind = "random" THEN NextRng(s) ELSE s


\* play_card without its second check: any card of the hand is played.
CardInHandOnly(player_id, card) == InSeq(card, hands[player_id])

\* play_card called after the seat has moved on: the legal set it validates
\* against is the next seat's.
CardAcceptedNextSeat(player_id, card) ==
    /\ InSeq(card, hands[player_id])
    /\ InSeq(card, get_legal_actions((player_id + 1) % 4))

\* ------------------------------------------------------------- play_card
\* The two checks of play_card (game.py 148-153); either failing raises.
CardAccepted(player_id, card) ==
    /\ InSeq(card, hands[player_id])
    /\ InSeq(card, get_legal_actions(player_id))

\* self.hands[player_id].remove(card)
play_card_hands(player_id, card) ==
    [hands EXCEPT ![player_id] = RemoveFirst(@, card)]

\* self.current_trick.append(card)
play_card_trick(card) == Append(current_trick, card)

\* self.observation_action_history[current_player].append((observation, card))
record_history(player_id, observation, card) ==
    [observation_action_history EXCEPT
        ![player_id] = Append(@, <<observation, card>>)]

\* self.current_player = (self.current_player + 1) % 4
next_player(player_id) == (player_id + 1) % 4

\* The winner leads the next trick: `self.current_player = winner`.
next_leader_winner(winner) == winner

\* `self.current_player = 0 #winner` at the end of play_trick.
next_leader(winner) == 0

\* calculate_scores that forgets the contract: 20 points per trick won.
calculate_scores_no_contract ==
    LET lead_tricks == tricks_won[DUMMY] + tricks_won[LEAD]
    IN  [lead_score |-> lead_tricks * 20, defender_score |-> -(lead_tricks * 20)]

\* calculate_scores (game.py 234-238).
calculate_scores ==
    LET lead_tricks == tricks_won[DUMMY] + tricks_won[LEAD]
        lead_score == (lead_tricks - contract) * 20
    IN  [lead_score |-> lead_score, defender_score |-> -lead_score]

\* The GameResult of play_game (game.py 256-268). Its trick_history and
\* observation_action_history are the engine's own lists, not copies: they are
\* read through the engine (result_trick_history, result_history).
GameResult ==
    [lead_tricks     |-> tricks_won[DUMMY] + tricks_won[LEAD],
     defender_tricks |-> tricks_won[DEFENDER_1] + tricks_won[DEFENDER_2],
     contract        |-> contract,
     lead_score      |-> calculate_scores.lead_score,
     defender_score  |-> calculate_scores.defender_score]

result_trick_history == trick_history

result_history == observation_action_history

\* ------------------------------------------------------------ construction
Seeds == {None} \cup {Some(k) : k \in 0..MaxSeed}

\* Contracts given at construction: 0 (nothing rejects it) and 7, the default
\* of GameRunner.
Contracts == {0, 7}

\* BridgePlay.__init__ (game.py 53-79).
Construct(c, a, sd) ==
    /\ contract = c
    /\ agents = a
    /\ seed = sd
    /\ hands = [i \in Seats |-> <<>>]
    /\ current_trick = <<>>
    /\ trick_history = <<>>
    /\ tricks_won = [i \in Seats |-> 0]
    /\ current_player = DEFENDER_1
    /\ trick_index = 0
    /\ observation_action_history = [i \in Seats |-> <<>>]

AllAgents(kind) == [i \in Seats |-> kind]

\* A fresh engine with four arbitrary policies, in a process whose generator
\* is in any state.
Init ==
    /\ \E c \in Contracts, sd \in Seeds : Construct(c, AllAgents("any"), sd)
    /\ rng \in RngStates
    /\ pc = "idle"
    /\ in_game = FALSE
    /\ loop_i = 0
    /\ turn_i = 0
    /\ deals = 0
    /\ result = NoResult
    /\ earlier = NoResult
    /\ call = NoCall
    /\ runner = NoRunner

\* --------------------------------------------------------------- play_game
\* play_game up to its loop: self.deal(seed=self.seed).
PlayGameCall ==
    /\ pc = "idle"
    /\ LET shuffled == shuffle(create_deck, RngForDeal(seed, rng))
       IN  /\ hands' = DealHands(shuffled.deck)
           /\ rng' = shuffled.rng
    /\ deals' = deals + 1
    /\ pc' = "play_game"
    /\ in_game' = TRUE
    /\ loop_i' = 0
    /\ UNCHANGED <<call, runner>>
    /\ UNCHANGED <<contract, agents, seed, current_trick, trick_history,
                   tricks_won, current_player, trick_index,
                   observation_action_history, turn_i, result, earlier>>

\* play_game on the engine just constructed (GameRunner.run_game).
PlayGame == deals = 0 /\ PlayGameCall

\* play_trick, first line: self.current_trick = [].
BeginTrick ==
    /\ pc = "play_game"
    /\ loop_i < NumTricks
    /\ current_trick' = <<>>
    /\ turn_i' = 0
    /\ pc' = "play_trick"
    /\ UNCHANGED <<call, runner>>
    /\ UNCHANGED <<contract, agents, seed, hands, trick_history, tricks_won,
                   current_player, trick_index, observation_action_history,
                   rng, in_game, loop_i, deals, result, earlier>>

\* One iteration of the loop of play_trick whose card play_card accepts.
Turn ==
    /\ pc = "play_trick"
    /\ turn_i < TrickSize
    /\ LET observation == get_observation(current_player)
           kind == agents[current_player]
       IN  \E card \in agent_returns(kind, current_player, observation, rng) :
               /\ CardAccepted(current_player, card)
               /\ observation_action_history' =
                      record_history(current_player, observation, card)
               /\ hands' = play_card_hands(current_player, card)
               /\ current_trick' = play_card_trick(card)
               /\ rng' = rng_after_action(kind, rng)
    /\ current_player' = next_player(current_player)
    /\ turn_i' = turn_i + 1
    /\ UNCHANGED <<call, runner>>
    /\ UNCHANGED <<contract, agents, seed, trick_history, tricks_won,
                   trick_index, pc, in_game, loop_i, deals, result, earlier>>

\* One iteration of the loop of play_trick whose card play_card rejects: the
\* pair is already in the history when the ValueError leaves play_trick, and
\* play_game with it (nothing catches it).
TurnRejected ==
    /\ pc = "play_trick"
    /\ turn_i < TrickSize
    /\ LET observation == get_observation(current_player)
           kind == agents[current_player]
       IN  \E card \in agent_returns(kind, current_player, observation, rng) :
               /\ ~CardAccepted(current_player, card)
               /\ observation_action_history' =
                      record_history(current_player, observation, card)
               /\ rng' = rng_after_action(kind, rng)
    /\ pc' = "aborted"
    /\ UNCHANGED <<call, runner>>
    /\ UNCHANGED <<contract, agents, seed, hands, current_trick, trick_history,
                   tricks_won, current_player, trick_index, in_game, loop_i,
                   turn_i, deals, result, earlier>>

\* winner = self.determine_trick_winner(); self.tricks_won[winner] += 1, for
\* a current trick of the cards `trick` (game.py 217-218).
tricks_won_after(trick) ==
    [tricks_won EXCEPT ![determine_trick_winner(trick)] = @ + 1]

\* play_trick after its loop (game.py 216-225).
EndTrick ==
    /\ pc = "play_trick"
    /\ turn_i = TrickSize
    /\ LET winner == determine_trick_winner(current_trick)
       IN  /\ tricks_won' = tricks_won_after(current_trick)
           /\ current_player' = next_leader(winner)
    /\ trick_history' = Append(trick_history, current_trick)
    /\ trick_index' = trick_index + 1
    /\ pc' = IF in_game THEN "play_game" ELSE "idle"
    /\ loop_i' = IF in_game THEN loop_i + 1 ELSE loop_i
    /\ UNCHANGED <<call, runner>>
    /\ UNCHANGED <<contract, agents, seed, hands, current_trick,
                   observation_action_history, rng, in_game, turn_i, deals,
                   result, earlier>>

\* play_game after its loop: the scores and the GameResult.
Return ==
    /\ pc = "play_game"
    /\ loop_i = NumTricks
    /\ result' = GameResult
    /\ pc' = "idle"
    /\ in_game' = FALSE
    /\ UNCHANGED <<call, runner>>
    /\ UNCHANGED <<contract, agents, seed, hands, current_trick, trick_history,
                   tricks_won, current_player, trick_index,
                   observation_action_history, rng, loop_i, turn_i, deals,
                   earlier>>

Next ==
    \/ PlayGame
    \/ BeginTrick
    \/ Turn
    \/ TurnRejected
    \/ EndTrick
    \/ Return

Spec == Init /\ [][Next]_vars


\* -------------------------------------------- the engine in a client's hands
\* The seatings of run_baseline_comparison (starter_game.py 228-279) and of
\* q_game.py, whose learned policy is an arbitrary one.
Seating(d1, dm, d2, ld) ==
    [i \in Seats |-> IF i = DEFENDER_1 THEN d1
                     ELSE IF i = DUMMY THEN dm
                     ELSE IF i = DEFENDER_2 THEN d2 ELSE ld]

Seatings ==
    {AllAgents("random"),
     Seating("random", "random", "random", "high"),
     Seating("random", "random", "random", "low"),
     Seating("high", "random", "high", "random"),
     AllAgents("high"),
     AllAgents("rule"),
     Seating("random", "rule", "random", "rule"),
     Seating("random", "random", "random", "any")}

\* A fresh engine with one of the seatings, before any call on it.
ClientStart ==
    /\ \E c \in Contracts, a \in Seatings, sd \in Seeds : Construct(c, a, sd)
    /\ rng \in RngStates
    /\ pc = "idle"
    /\ in_game = FALSE
    /\ loop_i = 0
    /\ turn_i = 0
    /\ deals = 0
    /\ result = NoResult
    /\ earlier = NoResult
    /\ call = NoCall

InitClient ==
    /\ ClientStart
    /\ runner = NoRunner

\* The client calls deal, play_trick and play_game again on its first engine
\* only: of a second engine (NewGame) it calls play_game once.
FirstEngine == earlier = NoResult

\* play_game called again on an engine that has dealt before.
Replay == FirstEngine /\ deals > 0 /\ deals < MaxDeals /\ PlayGameCall

\* deal(seed) called by the client: deal(), whose seed defaults to None, or
\* deal(self.seed) as play_game calls it.
Deal ==
    /\ pc = "idle"
    /\ FirstEngine
    /\ deals < MaxDeals
    /\ \E sd \in {None, seed} :
           LET shuffled == shuffle(create_deck, RngForDeal(sd, rng))
           IN  /\ hands' = DealHands(shuffled.deck)
               /\ rng' = shuffled.rng
    /\ deals' = deals + 1
    /\ UNCHANGED <<call, runner>>
    /\ UNCHANGED <<contract, agents, seed, current_trick, trick_history,
                   tricks_won, current_player, trick_index,
                   observation_action_history, pc, in_game, loop_i, turn_i,
                   result, earlier>>

\* play_trick called by the client, outside play_game.
PlayTrick ==
    /\ pc = "idle"
    /\ FirstEngine
    /\ current_trick' = <<>>
    /\ turn_i' = 0
    /\ pc' = "play_trick"
    /\ UNCHANGED <<call, runner>>
    /\ UNCHANGED <<contract, agents, seed, hands, trick_history, tricks_won,
                   current_player, trick_index, observation_action_history,
                   rng, in_game, loop_i, deals, result, earlier>>

\* One iteration of the loop of play_trick in which agent.get_action raises:
\* nothing is recorded and the error leaves play_trick.
TurnRaises ==
    /\ pc = "play_trick"
    /\ turn_i < TrickSize
    /\ agent_raises(agents[current_player], current_player,
                    get_observation(current_player))
    /\ pc' = "aborted"
    /\ UNCHANGED <<call, runner>>
    /\ UNCHANGED <<contract, agents, seed, hands, current_trick, trick_history,
                   tricks_won, current_player, trick_index,
                   observation_action_history, rng, in_game, loop_i, turn_i,
                   deals, result, earlier>>

\* What the client keeps of a finished game when it goes on to the next one.
Finished ==
    [contract        |-> contract,
     agents          |-> agents,
     seed            |-> seed,
     deals           |-> deals,
     result          |-> result,
     trick_history   |-> result_trick_history,
     history         |-> result_history]

\* GameRunner.run_game, second game: once play_game has returned, a new
\* BridgePlay with the runner's same contract, agents and seed
\* (starter_game.py 67-76).
NewEngine ==
    /\ pc = "idle"
    /\ result # NoResult
    /\ deals = 1
    /\ trick_index = NumTricks
    /\ earlier = NoResult
    /\ earlier' = Finished
    /\ hands' = [i \in Seats |-> <<>>]
    /\ current_trick' = <<>>
    /\ trick_history' = <<>>
    /\ tricks_won' = [i \in Seats |-> 0]
    /\ current_player' = DEFENDER_1
    /\ trick_index' = 0
    /\ observation_action_history' = [i \in Seats |-> <<>>]
    /\ deals' = 0
    /\ result' = NoResult
    /\ UNCHANGED call
    /\ UNCHANGED <<contract, agents, seed, rng, pc, in_game, loop_i, turn_i>>

NewGame == NewEngine /\ UNCHANGED runner

\* Any other use of the process-wide generator before a game: draws and
\* reseeding leave it in any state.
UseRandom ==
    /\ pc = "idle"
    /\ deals = 0
    /\ \E s \in RngStates \ {rng} : rng' = s
    /\ UNCHANGED <<call, runner>>
    /\ UNCHANGED <<contract, agents, seed, hands, current_trick, trick_history,
                   tricks_won, current_player, trick_index,
                   observation_action_history, pc, in_game, loop_i, turn_i,
                   deals, result, earlier>>

NextClient ==
    \/ PlayGame
    \/ Replay
    \/ Deal
    \/ PlayTrick
    \/ BeginTrick
    \/ Turn
    \/ TurnRejected
    \/ TurnRaises
    \/ EndTrick
    \/ Return
    \/ NewGame
    \/ UseRandom

SpecClient == InitClient /\ [][NextClient]_vars

\* ------------------------------------------------------ GameRunner.run_game
\* A GameRunner with or without an on_game_end callback, at the start of its
\* first run_game; calls lists the argument tuples the callback has received.
InitRunner ==
    /\ ClientStart
    /\ \E configured \in BOOLEAN :
           runner = [on_game_end |-> configured, calls |-> <<>>, pc |-> "run_game"]

\* The callback's arguments with the two scores exchanged.
on_game_end_args_swapped ==
    [observation_action_history |-> result_history,
     lead_score                 |-> result.defender_score,
     defender_score             |-> result.lead_score]

\* The arguments of self.on_game_end(...) (starter_game.py 81-85).
on_game_end_args ==
    [observation_action_history |-> result_history,
     lead_score                 |-> result.lead_score,
     defender_score             |-> result.defender_score]

\* run_game after game.play_game() has returned: the callback block and the
\* return of the statistics (starter_game.py 78-98).
RunGameEnd ==
    /\ pc = "idle"
    /\ result # NoResult
    /\ runner.pc = "run_game"
    /\ runner' =
           IF ~runner.on_game_end
           THEN [runner EXCEPT !.pc = "returned"]
           ELSE IF \E p \in Seats : Len(result_history[p]) # HandSize
           THEN [runner EXCEPT !.pc = "AssertionError"]
           ELSE [runner EXCEPT !.calls = Append(@, on_game_end_args),
                               !.pc = "returned"]
    /\ UNCHANGED <<contract, agents, seed, hands, current_trick, trick_history,
                   tricks_won, current_player, trick_index,
                   observation_action_history, rng, pc, in_game, loop_i,
                   turn_i, deals, result, earlier, call>>

\* The next run_game of run_games: a new engine for the runner's same contract,
\* agents and seed (starter_game.py 67-76, 127-128).
RunGame ==
    /\ runner.pc = "returned"
    /\ NewEngine
    /\ runner' = [runner EXCEPT !.pc = "run_game"]

NextRunner ==
    \/ PlayGame
    \/ BeginTrick
    \/ Turn
    \/ TurnRejected
    \/ EndTrick
    \/ Return
    \/ RunGameEnd
    \/ RunGame

SpecRunner == InitRunner /\ [][NextRunner]_vars

\* ------------------------------------- a policy that keeps its observations
\* The list fields of a PlayObservation.
ListFields == {"hand", "current_trick", "legal_actions", "dummy_hand"}

\* The seat whose hand get_observation(player_id) shows as dummy_hand.
visible_seat(player_id) == IF player_id = DUMMY THEN LEAD ELSE DUMMY

\* The lists of an observation, all copies but the hand, which is the engine's
\* own list.
is_copy_but_hand(field) == field # "hand"

\* The list get_observation puts in a field is a new list, not the engine's:
\* .copy() (game.py 172, 174, 184, 185, 107, 118) or a comprehension (112).
is_copy(field) == TRUE

\* The engine's list that holds what a field of player_id's observation shows.
engine_list(player_id, field) ==
    IF field = "current_trick" THEN current_trick
    ELSE IF field = "dummy_hand" THEN hands[visible_seat(player_id)]
    ELSE hands[player_id]

\* What a policy reads in the k-th observation it was handed and has kept.
observed(player_id, k) ==
    LET stored == observation_action_history[player_id][k][1]
    IN  [field \in DOMAIN stored |->
            IF field \in ListFields /\ ~is_copy(field)
            THEN engine_list(player_id, field)
            ELSE stored[field]]

\* An observation as get_observation made it in a game on a fresh engine,
\* where Defender1 leads every trick.
Pristine(observation) ==
    LET p == observation.player_id
        left == HandSize - observation.tricks_played
    IN  /\ Len(observation.hand) = left
        /\ Len(observation.current_trick) = p
        /\ observation.legal_actions =
               legal_actions_of(observation.hand, observation.current_trick)
        /\ Len(observation.dummy_hand) =
               IF visible_seat(p) < p THEN left - 1 ELSE left

\* The observations of player_id's history whose lists a policy has changed.
Edited(player_id) ==
    {k \in 1..Len(observation_action_history[player_id]) :
        ~Pristine(observation_action_history[player_id][k][1])}

\* A removal from a list, or the addition of a card to it.
ListEdits(list) ==
    {Append(list, card) : card \in DeckSet}
    \cup {SubSeq(list, 1, i - 1) \o SubSeq(list, i + 1, Len(list)) : i \in 1..Len(list)}

\* The engine's hands after a policy has made `list` of a list of its
\* observation.
edit_hands(player_id, field, list) ==
    IF is_copy(field) \/ field = "current_trick" THEN hands
    ELSE IF field = "dummy_hand"
    THEN [hands EXCEPT ![visible_seat(player_id)] = list]
    ELSE [hands EXCEPT ![player_id] = list]

edit_current_trick(field, list) ==
    IF ~is_copy(field) /\ field = "current_trick" THEN list ELSE current_trick

edit_history(player_id, k, field, list) ==
    IF is_copy(field)
    THEN [observation_action_history EXCEPT ![player_id][k][1][field] = list]
    ELSE observation_action_history

\* A learning policy (the "any" seat) adds a card to, or removes one from, a
\* list of an observation it has kept: inside a later get_action, or in the
\* callback after the game. It changes one list of one observation in a game.
PolicyEdits ==
    /\ \E p \in Seats :
           /\ agents[p] = "any"
           /\ \/ pc = "play_trick" /\ turn_i < TrickSize /\ current_player = p
              \/ pc = "idle" /\ result # NoResult
           /\ Edited(p) = {}
           /\ \E k \in 1..Len(observation_action_history[p]) :
                  /\ Pristine(observation_action_history[p][k][1])
                  /\ \E field \in ListFields :
                         \E list \in ListEdits(observed(p, k)[field]) :
                             /\ hands' = edit_hands(p, field, list)
                             /\ current_trick' = edit_current_trick(field, list)
                             /\ observation_action_history' =
                                    edit_history(p, k, field, list)
    /\ UNCHANGED <<contract, agents, seed, trick_history, tricks_won,
                   current_player, trick_index, rng, pc, in_game, loop_i,
                   turn_i, deals, result, earlier, call, runner>>

\* A fresh engine whose Lead is a learning policy, as in q_game.py.
InitRetain ==
    /\ \E c \in Contracts, sd \in Seeds :
           Construct(c, Seating("random", "random", "random", "any"), sd)
    /\ rng \in RngStates
    /\ pc = "idle"
    /\ in_game = FALSE
    /\ loop_i = 0
    /\ turn_i = 0
    /\ deals = 0
    /\ result = NoResult
    /\ earlier = NoResult
    /\ call = NoCall
    /\ runner = NoRunner

NextRetain ==
    \/ PlayGame
    \/ BeginTrick
    \/ Turn
    \/ TurnRejected
    \/ EndTrick
    \/ Return
    \/ PolicyEdits

SpecRetain == InitRetain /\ [][NextRetain]_vars

\* ------------------------------------------------ a policy called on its own
\* RuleBasedAgent.get_action is a function of its observation: it is called
\* here on the observations of the positions of a game in which the cards
\* still held are among the first PolicyCards cards of PolicyDeck and the
\* observing seat holds at most PolicyHand.
PolicyDeck ==
    <<Card("S", "A"), Card("S", "K"), Card("S", "Q"),
      Card("H", "A"), Card("H", "K"), Card("H", "Q"),
      Card("D", "A"), Card("D", "K"), Card("S", "J"),
      Card("D", "Q"), Card("H", "J"), Card("D", "J"),
      Card("C", "A"), Card("C", "K"), Card("C", "Q"), Card("C", "J")>>

PolicyCardSet == {PolicyDeck[i] : i \in 1..PolicyCards}

\* The lists of n different cards of a set, in every order.
OrderedHands(cards, n) == {h \in [1..n -> cards] : Distinct(h)}

\* The hands the observation of seat player_type may show beside its own n
\* cards. Defender1 and Dummy act before the seat they are shown, which holds
\* n cards; Defender2 and Lead are shown the Dummy hand after Dummy has
\* played, n - 1 cards, and their heuristics do not read it: one such hand.
VisibleHands(player_type, rest, n) ==
    LET in_order(S) == SelectSeq(PolicyDeck, LAMBDA c : c \in S)
    IN  IF player_type \in {DEFENDER_1, DUMMY}
        THEN {in_order(S) : S \in {T \in SUBSET rest : Cardinality(T) = n}}
        ELSE IF Cardinality(rest) < n - 1 THEN {}
        ELSE {SubSeq(in_order(rest), 1, n - 1)}

\* The k highest cards of a suit, from the Ace down.
TopOfSuit(suit, k) ==
    [i \in 1..k |-> Card(suit, AllRanks[Len(AllRanks) - i + 1])]

\* The LongSuit cards of a suit just below its LongSuit + 1 highest.
LowOfSuit(suit) ==
    [i \in 1..LongSuit |-> Card(suit, AllRanks[Len(AllRanks) - LongSuit - i])]

\* The holdings of LongSuit cards among the LongSuit + 1 highest of a suit.
LongHoldings(suit) ==
    LET top == TopOfSuit(suit, LongSuit + 1)
    IN  {SelectSeq(top, LAMBDA c : c # top[j]) : j \in 1..(LongSuit + 1)}

\* Positions at the start of a trick in which Defender1 holds low spades and
\* low hearts only, and the Dummy hand it is shown holds LongSuit high cards
\* of each of the two suits.
LongSuitPositions ==
    {[hand |-> hand, visible |-> spades \o hearts] :
        hand \in {LowOfSuit("S") \o LowOfSuit("H"), LowOfSuit("H") \o LowOfSuit("S")},
        spades \in LongHoldings("S"),
        hearts \in LongHoldings("H")}

\* The k cards of a suit from its n-th lowest rank upwards.
RunOfSuit(suit, n, k) == [i \in 1..k |-> Card(suit, AllRanks[n + i - 1])]

\* How many cards a hand of 3 * LeadSuitMax cards holds in spades, hearts and
\* clubs when it holds LeadSuitMax or 2 * LeadSuitMax cards in a suit it holds.
DiscardShapes ==
    {shape \in [{"S", "H", "C"} -> {0, LeadSuitMax, 2 * LeadSuitMax}] :
        shape["S"] + shape["H"] + shape["C"] = 3 * LeadSuitMax}

\* Positions in which Defender1 has led the Ace of diamonds and Dummy, with
\* 3 * LeadSuitMax cards and no diamond, cannot follow: it holds high spades
\* and middle hearts and clubs; the Lead hand it is shown holds 2..LeadSuitMax
\* low cards in each of spades, hearts and clubs, and low diamonds beside them.
DiscardPositions ==
    {[hand    |-> IF spades_first
                  THEN TopOfSuit("S", shape["S"])
                       \o RunOfSuit("H", LeadSuitMax + 2, shape["H"])
                       \o RunOfSuit("C", LeadSuitMax + 1, shape["C"])
                  ELSE RunOfSuit("C", LeadSuitMax + 1, shape["C"])
                       \o RunOfSuit("H", LeadSuitMax + 2, shape["H"])
                       \o TopOfSuit("S", shape["S"]),
      visible |-> RunOfSuit("S", 1, held["S"]) \o RunOfSuit("H", 1, held["H"])
                  \o RunOfSuit("D", 1, 3 * LeadSuitMax
                                         - (held["S"] + held["H"] + held["C"]))
                  \o RunOfSuit("C", 1, held["C"])] :
        spades_first \in BOOLEAN,
        shape \in DiscardShapes,
        held \in [{"S", "H", "C"} -> 2..LeadSuitMax]}

\* The PlayObservation of get_observation for such a position: the seats act
\* in the order 0, 1, 2, 3, so seat player_type sees player_type cards in the
\* trick; a seat with n cards left has played 13 - n tricks.
PolicyObservation(player_type, trick, hand, visible) ==
    [hand          |-> hand,
     current_trick |-> trick,
     tricks_played |-> Len(AllRanks) - Len(hand),
     tricks_won    |-> 0,
     contract      |-> 7,
     legal_actions |-> legal_actions_of(hand, trick),
     player_id     |-> player_type,
     dummy_hand    |-> visible]

InitPolicy ==
    /\ Construct(7, AllAgents("rule"), None)
    /\ rng = 0
    /\ pc = "idle"
    /\ in_game = FALSE
    /\ loop_i = 0
    /\ turn_i = 0
    /\ deals = 0
    /\ result = NoResult
    /\ earlier = NoResult
    /\ runner = NoRunner
    /\ \/ \E player_type \in Seats, n \in 1..PolicyHand :
              \E trick \in OrderedHands(PolicyCardSet, player_type) :
                  \E hand \in OrderedHands(PolicyCardSet \ SeqSet(trick), n) :
                      LET rest == (PolicyCardSet \ SeqSet(trick)) \ SeqSet(hand)
                      IN  \E visible \in VisibleHands(player_type, rest, n) :
                              /\ Len(visible) = IF player_type \in {DEFENDER_1, DUMMY}
                                                THEN n ELSE n - 1
                              /\ call = [player_type |-> player_type,
                                         observation |-> PolicyObservation(
                                             player_type, trick, hand, visible),
                                         action      |-> None]
       \/ \E position \in LongSuitPositions :
              call = [player_type |-> DEFENDER_1,
                      observation |-> PolicyObservation(
                          DEFENDER_1, <<>>, position.hand, position.visible),
                      action      |-> None]
       \/ \E position \in DiscardPositions :
              call = [player_type |-> DUMMY,
                      observation |-> PolicyObservation(
                          DUMMY, <<Card("D", "A")>>, position.hand,
                          position.visible),
                      action      |-> None]

\* card = agent.get_action(observation) of a RuleBasedAgent(player_type).
GetAction ==
    /\ call # NoCall
    /\ call.action = None
    /\ call' = [call EXCEPT
                   !.action = Some(RuleBasedAgent(call.player_type, call.observation))]
    /\ UNCHANGED <<contract, agents, seed, hands, current_trick, trick_history,
                   tricks_won, current_player, trick_index,
                   observation_action_history, rng, pc, in_game, loop_i,
                   turn_i, deals, result, earlier, runner>>

NextPolicy == GetAction

SpecPolicy == InitPolicy /\ [][NextPolicy]_vars

\* ------------------------------------------------- play_game runs to its end
\* One play_game on a fresh engine of any seating. play_game is sequential
\* code: once called, each of its steps is taken, so the steps of Next are
\* weakly fair.
SpecLive == InitClient /\ [][Next]_vars /\ WF_vars(Next)


\* ================================================================== claims
Last(seq) == seq[Len(seq)]

\* Every <<observation, card>> pair of every seat's history.
Recorded ==
    UNION {SeqSet(observation_action_history[p]) : p \in Seats}

\* C1: every (Observation, Card) pair recorded in a seat's history has its
\* Card in that Observation's legal_actions; a card the engine rejects is
\* never recorded.
C1_RecordedCardsLegal ==
    \A pair \in Recorded : InSeq(pair[2], pair[1].legal_actions)

\* The step records a card for seat p that is not in p's hand, or is in the
\* hand but not in the legal set of the observation p was given.
RejectedStep(p) ==
    /\ Len(observation_action_history'[p]) = Len(observation_action_history[p]) + 1
    /\ LET pair == Last(observation_action_history'[p])
       IN  \/ ~InSeq(pair[2], hands[p])
           \/ ~InSeq(pair[2], pair[1].legal_actions)

\* C2: when the policy returns a card that is not in the acting seat's hand,
\* or not in its legal set, play_card raises: no hand loses a card, the trick
\* gains none, no trick is resolved, no result is produced, and the game
\* never moves again.
C2_RejectedCardNotPlayed ==
    [][/\ \A p \in Seats :
              RejectedStep(p) =>
                  /\ hands' = hands
                  /\ current_trick' = current_trick
                  /\ trick_history' = trick_history
                  /\ tricks_won' = tricks_won
                  /\ result' = result
                  /\ pc' = "aborted"
       /\ pc = "aborted" => UNCHANGED vars]_vars

\* A card of the hand that breaks the follow-suit rule was returned in the
\* middle of a trick, and the game stopped with the hand and the trick intact.
C2_Witness ==
    /\ pc = "aborted"
    /\ current_trick # <<>>
    /\ observation_action_history[current_player] # <<>>
    /\ LET pair == Last(observation_action_history[current_player])
       IN  /\ pair[1].hand = hands[current_player]
           /\ pair[1].current_trick = current_trick
           /\ InSeq(pair[2], hands[current_player])
           /\ ~InSeq(pair[2], pair[1].legal_actions)

\* A hand holding a card of the suit led by a non-empty trick.
CanFollow(hand, trick) ==
    /\ trick # <<>>
    /\ \E c \in SeqSet(hand) : c.suit = trick[1].suit

AllOfLedSuit(cards, trick) ==
    \A c \in SeqSet(cards) : c.suit = trick[1].suit

\* C3: follow-suit law: when the trick is non-empty and the seat holds a card
\* of the suit of position 0, every card of get_legal_actions, and of the
\* legal_actions of the observation built for it, has that suit.
C3_FollowSuit ==
    /\ \A p \in Seats :
           CanFollow(hands[p], current_trick) =>
               AllOfLedSuit(get_legal_actions(p), current_trick)
    /\ \A pair \in Recorded :
           CanFollow(pair[1].hand, pair[1].current_trick) =>
               AllOfLedSuit(pair[1].legal_actions, pair[1].current_trick)

\* The seat to act holds the led suit and another suit: the rule narrows its
\* hand.
C3_Witness ==
    /\ pc = "play_trick"
    /\ turn_i < TrickSize
    /\ CanFollow(hands[current_player], current_trick)
    /\ \E c \in SeqSet(hands[current_player]) : c.suit # current_trick[1].suit
    /\ Len(get_legal_actions(current_player)) < Len(hands[current_player])

\* Seat w holds the winning card of a four-card trick: of the led suit, and of
\* the greatest rank among the cards of the led suit.
WinsTrick(w, trick) ==
    /\ w \in Seats
    /\ trick[w + 1].suit = trick[1].suit
    /\ \A i \in 1..Len(trick) :
           (i # w + 1 /\ trick[i].suit = trick[1].suit) =>
               rank_value(trick[i]) < rank_value(trick[w + 1])

Played ==
    SeqSet(current_trick) \cup UNION {SeqSet(trick_history[k]) : k \in 1..Len(trick_history)}

\* C5: card conservation: from deal on, each card of the deck is in exactly
\* one seat's hand or among the played cards, never in two hands and never
\* both in a hand and played.
C5_CardConservation ==
    deals >= 1 =>
        \A c \in DeckSet :
            LET holders == {p \in Seats : InSeq(c, hands[p])}
            IN  \/ Cardinality(holders) = 1 /\ c \notin Played
                \/ holders = {} /\ c \in Played

\* The four hands h split the deck: HandSize cards each (13 in the source),
\* no card twice, every card of the 4 x NumRanks deck (52) in one of them.
Partition(h) ==
    /\ \A p \in Seats : Len(h[p]) = HandSize /\ Distinct(h[p])
    /\ \A p, q \in Seats : p # q => SeqSet(h[p]) \cap SeqSet(h[q]) = {}
    /\ UNION {SeqSet(h[p]) : p \in Seats}
           = {Card(SUITS[i], RANKS[j]) : i \in 1..4, j \in 1..NumRanks}
    /\ Cardinality(UNION {SeqSet(h[p]) : p \in Seats}) = 4 * NumRanks

\* C6: partition at deal: for every seed, right after deal() each seat holds
\* exactly HandSize cards, the hands are pairwise disjoint and their union is
\* the deck.
C6_DealPartition ==
    [][deals' = deals + 1 => Partition(hands')]_vars

\* Right after a deal seeded with a truthy seed, which moved cards between the
\* blocks of the unshuffled deck.
C6_Witness ==
    /\ pc = "play_game"
    /\ loop_i = 0
    /\ deals = 1
    /\ Truthy(seed)
    /\ hands # DealHands(create_deck)
    /\ \E p \in Seats : \E c, d \in SeqSet(hands[p]) : c.suit # d.suit

DeterministicSeatings == {AllAgents("rule"), AllAgents("high")}

\* C7: determinism: two engines built with the same integer seed, the same
\* contract and the same deterministic policies produce the same trick history
\* and the same scores, whatever the process did with the generator before.
C7_Determinism ==
    (/\ earlier # NoResult
     /\ result # NoResult
     /\ deals = 1
     /\ pc = "idle"
     /\ seed # None
     /\ agents \in DeterministicSeatings
     /\ earlier.seed = seed
     /\ earlier.contract = contract
     /\ earlier.agents = agents)
    => /\ earlier.trick_history = result_trick_history
       /\ earlier.result.lead_score = result.lead_score
       /\ earlier.result.defender_score = result.defender_score

C9_TrickSize ==
    \A k \in 1..Len(trick_history) :
        /\ Len(trick_history[k]) = 4
        /\ Distinct(trick_history[k])
        /\ \A p \in Seats :
               /\ Len(observation_action_history[p]) >= k
               /\ Cardinality({i \in 1..Len(trick_history[k]) :
                      trick_history[k][i] = observation_action_history[p][k][2]}) = 1

\* All the tricks of a game are in the history.
C9_Witness ==
    /\ Len(trick_history) = NumTricks
    /\ \A p \in Seats : hands[p] = <<>>

SumWon(won) == won[DEFENDER_1] + won[DUMMY] + won[DEFENDER_2] + won[LEAD]

\* C10: trick conservation: when play_game returns, the four tricks-won
\* counters sum to the number of tricks of a game (13), and so do the result's
\* lead_tricks and defender_tricks.
C10_TrickConservation ==
    [][(pc = "play_game" /\ pc' = "idle") =>
           /\ SumWon(tricks_won') = NumTricks
           /\ result'.lead_tricks + result'.defender_tricks = NumTricks]_vars

\* C11: score: for every contract and every final trick count, lead_score is
\* (tricks_won[Dummy] + tricks_won[Lead] - contract) * 20 and defender_score
\* is its negation, so the two scores sum to 0; the scores of a returned
\* result are those of its lead_tricks and its contract.
C11_Score ==
    /\ calculate_scores.lead_score
           = (tricks_won[DUMMY] + tricks_won[LEAD] - contract) * 20
    /\ calculate_scores.defender_score = -calculate_scores.lead_score
    /\ calculate_scores.lead_score + calculate_scores.defender_score = 0
    /\ result # NoResult =>
           /\ result.lead_score = (result.lead_tricks - result.contract) * 20
           /\ result.defender_score = -result.lead_score
           /\ result.lead_score + result.defender_score = 0

\* A game with contract 7 returned with the lead team one trick up: the lead
\* team is 6 tricks short of its contract.
C11_Witness ==
    /\ result # NoResult
    /\ contract = 7
    /\ result.lead_tricks = 1
    /\ result.lead_score = -120
    /\ result.defender_score = 120

\* C12: legal set shape: get_legal_actions is the whole hand when the current
\* trick is empty and when the hand holds no card of the led suit; it is
\* always a sub-list of the seat's hand, and non-empty whenever the hand is.
C12_LegalSetShape ==
    \A p \in Seats :
        LET legal == get_legal_actions(p)
        IN  /\ current_trick = <<>> => legal = hands[p]
            /\ (current_trick # <<>> /\ ~CanFollow(hands[p], current_trick))
                   => legal = hands[p]
            /\ SeqSet(legal) \subseteq SeqSet(hands[p])
            /\ Len(legal) <= Len(hands[p])
            /\ hands[p] # <<>> => legal # <<>>

\* The seat to act in the middle of a trick holds cards, none of the led suit.
C12_Witness ==
    /\ pc = "play_trick"
    /\ turn_i \in 1..(TrickSize - 1)
    /\ hands[current_player] # <<>>
    /\ ~CanFollow(hands[current_player], current_trick)
    /\ get_legal_actions(current_player) = hands[current_player]

\* C13: at every turn of play_trick the legal_actions of the observation
\* handed to the policy is the legal set play_card validates against when the
\* card is applied, so a card taken from observation.legal_actions is accepted
\* without error: it leaves the hand and joins the trick.
C13_ObservedLegalSetValidated ==
    [][\A p \in Seats :
           Len(observation_action_history'[p]) = Len(observation_action_history[p]) + 1
           => LET pair == Last(observation_action_history'[p])
              IN  /\ pair[1].legal_actions = get_legal_actions(p)
                  /\ InSeq(pair[2], pair[1].legal_actions) =>
                         /\ pc' # "aborted"
                         /\ hands' = [hands EXCEPT ![p] = RemoveFirst(@, pair[2])]
                         /\ current_trick' = Append(current_trick, pair[2])]_vars

\* A seat that had to follow suit took the card from a legal set smaller than
\* its hand, and the card is on the table.
C13_Witness ==
    /\ pc = "play_trick"
    /\ turn_i \in 2..TrickSize
    /\ LET pair == Last(observation_action_history[turn_i - 1])
       IN  /\ Len(pair[1].legal_actions) < Len(pair[1].hand)
           /\ InSeq(pair[2], pair[1].legal_actions)
           /\ Last(current_trick) = pair[2]
           /\ ~InSeq(pair[2], hands[turn_i - 1])

\* Every seat's policy is one that returns a member of legal_actions.
LegalPolicies ==
    \A p \in Seats : agents[p] \in {"high", "low", "random", "rule"}

\* GameComplete: play_game has returned after NumTricks tricks (13), each seat
\* was asked HandSize times (13, 52 in all), and the four hands are empty.
GameComplete ==
    /\ pc = "idle"
    /\ result # NoResult
    /\ loop_i = NumTricks
    /\ trick_index = NumTricks
    /\ Len(trick_history) = NumTricks
    /\ \A p \in Seats : Len(observation_action_history[p]) = HandSize
    /\ \A p \in Seats : hands[p] = <<>>

\* C14: termination: play_game with four policies that always return a member
\* of observation.legal_actions terminates; it reaches GameComplete after
\* exactly 13 tricks and 52 policy invocations (13 per seat), and then all
\* four hands are empty.
C14_Termination ==
    /\ [](LegalPolicies /\ result # NoResult => GameComplete)
    /\ (LegalPolicies /\ pc = "play_game") ~> GameComplete

\* A game of four rule-based agents has returned.
C14_Witness ==
    /\ agents = AllAgents("rule")
    /\ GameComplete
    /\ result.lead_tricks + result.defender_tricks = NumTricks

\* Seat p is given an observation and its card is recorded in this step.
RecordsFor(p) ==
    Len(observation_action_history'[p]) = Len(observation_action_history[p]) + 1

\* The hand an observation for seat p shows beside p's own.
VisibleHand(p) == IF p = DUMMY THEN hands[LEAD] ELSE hands[DUMMY]

\* C15: visibility: in the observation built for the Dummy seat the
\* partner-visible hand (dummy_hand) is the Lead seat's current hand; for any
\* other seat it is the Dummy seat's current hand; the observation's own hand
\* is always the observing seat's current hand. This holds of the observation
\* of every seat in every state and of every observation handed to a policy.
C15_Visibility ==
    [][\A p \in Seats :
           /\ get_observation(p).hand = hands[p]
           /\ get_observation(p).dummy_hand = VisibleHand(p)
           /\ RecordsFor(p) =>
                  LET observation == Last(observation_action_history'[p])[1]
                  IN  /\ observation.player_id = p
                      /\ observation.hand = hands[p]
                      /\ observation.dummy_hand = VisibleHand(p)]_vars

\* The Dummy seat has just acted on an observation that showed it the Lead
\* seat's cards, which are not its own.
C15_Witness ==
    /\ pc = "play_trick"
    /\ turn_i = 2
    /\ hands[LEAD] # <<>>
    /\ LET observation == Last(observation_action_history[DUMMY])[1]
       IN  /\ observation.dummy_hand = hands[LEAD]
           /\ observation.dummy_hand # observation.hand
           /\ observation.hand = Append(hands[DUMMY], Last(current_trick))
                  \/ observation.hand = <<Last(current_trick)>> \o hands[DUMMY]

TeamOf(p) ==
    IF p \in {DUMMY, LEAD} THEN {DUMMY, LEAD} ELSE {DEFENDER_1, DEFENDER_2}

\* Tricks among the first n of trick_history that a seat of the team won.
TeamWonInFirst(team, n) ==
    Cardinality({j \in 1..n : determine_trick_winner(trick_history[j]) \in team})

\* C16: in every observation tricks_won is the team total at that moment:
\* tricks_won[Dummy] + tricks_won[Lead] for the Dummy and Lead seats,
\* tricks_won[Defender1] + tricks_won[Defender2] for the defenders; in a
\* recorded observation it is the number of the tricks played before it that
\* the observing seat or its partner won, never the seat's own count alone.
C16_TeamTricksWon ==
    /\ \A p \in Seats :
           get_observation(p).tricks_won
               = IF p \in {DUMMY, LEAD}
                 THEN tricks_won[DUMMY] + tricks_won[LEAD]
                 ELSE tricks_won[DEFENDER_1] + tricks_won[DEFENDER_2]
    /\ \A p \in Seats : \A k \in 1..Len(observation_action_history[p]) :
           LET observation == observation_action_history[p][k][1]
           IN  /\ observation.tricks_played <= Len(trick_history)
               /\ observation.tricks_won
                      = TeamWonInFirst(TeamOf(p), observation.tricks_played)

\* A seat was given a positive tricks_won although every trick before was won
\* by its partner, none by itself.
C16_Witness ==
    \E p \in Seats : \E k \in 1..Len(observation_action_history[p]) :
        LET observation == observation_action_history[p][k][1]
        IN  /\ observation.tricks_won >= 1
            /\ observation.tricks_played <= Len(trick_history)
            /\ TeamWonInFirst({p}, observation.tricks_played) = 0
            /\ TeamWonInFirst(TeamOf(p) \ {p}, observation.tricks_played) >= 1

\* The calls of RuleBasedAgent.get_action that have returned: the seat, the
\* observation and the card, for the call made outside a game and for every
\* turn of a rule-based seat in a game.
RuleCalls ==
    (IF call # NoCall /\ call.action # None
     THEN {<<call.player_type, call.observation, call.action[1]>>}
     ELSE {})
    \cup UNION {{<<p, pair[1], pair[2]>> : pair \in SeqSet(observation_action_history[p])} :
                  p \in {q \in Seats : agents[q] = "rule"}}

\* C17: every role heuristic of RuleBasedAgent (Defender1, Dummy, Defender2,
\* Lead), given an observation of a game with non-empty legal_actions, returns
\* a member of observation.legal_actions; so no card of a rule-based seat is
\* one the engine rejects.
C17_RuleBasedLegal ==
    \A c \in RuleCalls :
        /\ c[2].legal_actions # <<>>
        /\ InSeq(c[3], c[2].legal_actions)
        /\ InSeq(c[3], c[2].hand)

\* The Lead heuristic, held to the led suit with cards of other suits in its
\* hand, beat the three cards of the trick with a card of the led suit.
C17_Witness ==
    /\ call # NoCall
    /\ call.action # None
    /\ call.player_type = LEAD
    /\ LET observation == call.observation
           card == call.action[1]
       IN  /\ Len(observation.legal_actions) < Len(observation.hand)
           /\ Len(observation.legal_actions) >= 2
           /\ card.suit = observation.current_trick[1].suit
           /\ \A i \in 1..3 : card_value(observation.current_trick[i], card.suit)
                                   < rank_value(card)
           /\ \E d \in SeqSet(observation.hand) :
                  d.suit # card.suit /\ rank_value(d) > rank_value(card)

\* C18: ace-priority scenario: whenever rule-based Defender1 holds the Ace,
\* King and Queen of a suit X and the partner-visible hand holds no card of X,
\* the card Defender1 leads is the Ace of X, whatever else it holds.
C18_AcePriority ==
    \A c \in RuleCalls :
        c[1] = DEFENDER_1 =>
            \A i \in 1..Len(SUITS) :
                LET X == SUITS[i]
                IN  (/\ InSeq(Card(X, "A"), c[2].legal_actions)
                     /\ InSeq(Card(X, "K"), c[2].legal_actions)
                     /\ InSeq(Card(X, "Q"), c[2].legal_actions)
                     /\ suit_cards(c[2].dummy_hand, X) = <<>>)
                    => c[3] = Card(X, "A")

\* Led-suit cards of the hand that outrank the card Defender1 played.
Beaters(cards, d1_card) ==
    {b \in SeqSet(cards) : b.suit = d1_card.suit /\ rank_value(b) > rank_value(d1_card)}

\* C19: Dummy scenario: when rule-based Dummy can follow the led suit, the
\* partner-visible (Lead) hand holds no led-suit card outranking the card
\* Defender1 played, and Dummy holds at least one led-suit card outranking it,
\* Dummy plays the highest-ranked of its beating cards.
C19_DummyHighestBeater ==
    \A c \in RuleCalls :
        (/\ c[1] = DUMMY
         /\ Len(c[2].current_trick) = 1
         /\ CanFollow(c[2].hand, c[2].current_trick)
         /\ Beaters(c[2].dummy_hand, c[2].current_trick[1]) = {}
         /\ Beaters(c[2].hand, c[2].current_trick[1]) # {})
        => /\ c[3] \in Beaters(c[2].hand, c[2].current_trick[1])
           /\ \A b \in Beaters(c[2].hand, c[2].current_trick[1]) :
                  rank_value(b) <= rank_value(c[3])

\* Dummy held two cards that beat Defender1's, Lead none, and Dummy played
\* the higher of the two.
C19_Witness ==
    /\ call # NoCall
    /\ call.action # None
    /\ call.player_type = DUMMY
    /\ LET observation == call.observation
           beaters == Beaters(observation.hand, observation.current_trick[1])
       IN  /\ Cardinality(beaters) >= 2
           /\ Beaters(observation.dummy_hand, observation.current_trick[1]) = {}
           /\ suit_cards(observation.dummy_hand, observation.current_trick[1].suit) # <<>>
           /\ call.action[1] \in beaters
           /\ \E b \in beaters : rank_value(b) < rank_value(call.action[1])

\* C20: constructing BridgePlay with a non-positive contract is rejected at
\* construction time, before any card is dealt: no engine with a non-positive
\* contract deals, holds cards or produces a score.
C20_NonPositiveContractRejected ==
    contract <= 0 =>
        /\ deals = 0
        /\ \A p \in Seats : hands[p] = <<>>
        /\ result = NoResult

\* C21: determine_trick_winner called while the current trick holds fewer
\* than 4 cards (0, 1, 2 or 3) raises an error and never returns a seat.
C21_ShortTrickRaises ==
    Len(current_trick) < 4 => determine_trick_winner_raises(current_trick)

\* A call of deal() has left the engine as a new game needs it.
CleanAfterDeal ==
    /\ trick_index' = 0
    /\ current_player' = DEFENDER_1
    /\ tricks_won' = [p \in Seats |-> 0]
    /\ current_trick' = <<>>
    /\ trick_history' = <<>>
    /\ observation_action_history' = [p \in Seats |-> <<>>]

\* C22: deal() leaves the engine at trick index 0 with Defender1 to act, all
\* four tricks-won counters at 0, and the current trick, the trick history
\* and every per-seat history empty, whatever the engine state was before
\* (a fresh engine or one that has already played tricks).
C22_DealClears ==
    [][deals' = deals + 1 => CleanAfterDeal]_vars

\* C23: the trick history and the per-seat history held by a GameResult
\* returned from play_game never change afterwards, whatever operations
\* (deal, play_trick, play_game) are later invoked on its engine.
C23_ResultImmutable ==
    [][(result # NoResult /\ result' # NoResult) =>
           /\ result_trick_history' = result_trick_history
           /\ result_history' = result_history]_vars

\* C26: after a trick has been resolved (when play_trick returns, and in the
\* final state after play_game returns) the engine's current trick is empty.
C26_TrickClearedAfterResolution ==
    pc \in {"idle", "play_game"} => current_trick = <<>>

\* C28: random-source isolation: dealing in an engine, with or without a
\* seed, does not change the process-wide random source.
C28_DealLeavesGenerator ==
    [][deals' = deals + 1 => rng' = rng]_vars

\* The games the runner has completed: the earlier one, and the one whose
\* run_game has gone past its callback block.
CompletedGames ==
    (IF earlier # NoResult THEN <<earlier>> ELSE <<>>)
    \o (IF runner.pc = "returned" /\ result # NoResult THEN <<Finished>> ELSE <<>>)

\* C24: feedback hook: with an on_game_end callback configured, run_game
\* invokes it exactly once per completed game, after the game has finished,
\* with a history of exactly HandSize (observation, card) pairs for each of
\* the four seats (the assertion never fails) and with that game's lead_score
\* and defender_score; it is not invoked for a game that aborts or is still
\* being played.
C24_FeedbackHook ==
    runner.on_game_end =>
        /\ runner.pc # "AssertionError"
        /\ Len(runner.calls) = Len(CompletedGames)
        /\ \A k \in 1..Len(runner.calls) :
               LET args == runner.calls[k]
                   game == CompletedGames[k]
               IN  /\ \A p \in Seats :
                          Len(args.observation_action_history[p]) = HandSize
                   /\ args.observation_action_history = game.history
                   /\ args.lead_score = game.result.lead_score
                   /\ args.defender_score = game.result.defender_score
                   /\ args.lead_score =
                          (game.result.lead_tricks - game.contract) * 20
                   /\ args.defender_score = -args.lead_score

\* The callback has been invoked once for each of two completed games, whose
\* scores differ.
C24_Witness ==
    /\ runner.on_game_end
    /\ Len(runner.calls) = 2
    /\ runner.calls[1].lead_score # runner.calls[2].lead_score
    /\ runner.pc = "returned"

\* A game of the runner aborted by an illegal card: no call for it.
C24_WitnessAborted ==
    /\ runner.on_game_end
    /\ pc = "aborted"
    /\ earlier # NoResult
    /\ Len(runner.calls) = 1

\* C25: trick resolution step: completing a trick increments the tricks-won
\* counter of exactly the winning seat by 1 and leaves the other three counters
\* and all hands unchanged, appends exactly the four played cards as one entry
\* to the trick history and advances the trick index by 1; so in a game on a
\* fresh engine, at every trick boundary
\* sum(tricks_won) = trick_index = len(trick_history).
C25_TrickResolution ==
    [][trick_index' # trick_index =>
           /\ Len(current_trick) = 4
           /\ \E w \in Seats :
                  /\ WinsTrick(w, current_trick)
                  /\ tricks_won'[w] = tricks_won[w] + 1
                  /\ \A p \in Seats \ {w} : tricks_won'[p] = tricks_won[p]
           /\ hands' = hands
           /\ Len(trick_history') = Len(trick_history) + 1
           /\ Last(trick_history') = current_trick
           /\ SubSeq(trick_history', 1, Len(trick_history)) = trick_history
           /\ trick_index' = trick_index + 1
           /\ SumWon(tricks_won') = trick_index'
           /\ trick_index' = Len(trick_history')]_vars

\* Two tricks have been resolved, one won by Defender1, who led it, and one by
\* Lead, who played last.
C25_Witness ==
    /\ trick_index = 2
    /\ Len(trick_history) = 2
    /\ tricks_won[DEFENDER_1] = 1
    /\ tricks_won[LEAD] = 1
    /\ pc = "play_game"

\* A step in which a policy changes an observation it has kept, and no engine
\* operation advances.
PolicyEditStep ==
    /\ observation_action_history' # observation_action_history
    /\ pc' = pc
    /\ turn_i' = turn_i

Lowest(cards) ==
    CHOOSE d \in cards : \A e \in cards : rank_value(d) <= rank_value(e)

\* The best card of a trick so far: of the led suit, outranked by no other
\* card of the led suit.
BestOfTrick(trick) ==
    CHOOSE b \in SeqSet(trick) :
        /\ b.suit = trick[1].suit
        /\ \A e \in SeqSet(trick) :
               e.suit = trick[1].suit => rank_value(e) <= rank_value(b)

\* C29: third and fourth seat rule (rule-based Defender2 and Lead). A seat
\* that can follow the led suit plays its lowest card of the led suit when its
\* partner's card (position 0 for Defender2, 1 for Lead) is the best led-suit
\* card of the trick; otherwise the lowest of its led-suit cards that outrank
\* the best card, or its lowest led-suit card when none outranks it. A seat
\* that cannot follow plays a card of the lowest rank in its hand.
C29_ThirdFourthSeat ==
    \A c \in RuleCalls :
        c[1] \in {DEFENDER_2, LEAD} =>
            LET hand == SeqSet(c[2].hand)
                trick == c[2].current_trick
                card == c[3]
                partner == trick[IF c[1] = DEFENDER_2 THEN 1 ELSE 2]
                best == BestOfTrick(trick)
                mine == {d \in hand : d.suit = trick[1].suit}
                beaters == {d \in mine : rank_value(d) > rank_value(best)}
            IN  IF mine = {}
                THEN /\ card \in hand
                     /\ \A e \in hand : rank_value(card) <= rank_value(e)
                ELSE IF partner = best THEN card = Lowest(mine)
                ELSE IF beaters # {} THEN card = Lowest(beaters)
                ELSE card = Lowest(mine)

\* Defender2, whose partner's lead Dummy has beaten, holds two cards of the led
\* suit that outrank Dummy's card, and plays the lower of the two.
C29_Witness ==
    /\ call # NoCall
    /\ call.action # None
    /\ call.player_type = DEFENDER_2
    /\ LET trick == call.observation.current_trick
           hand == SeqSet(call.observation.hand)
           card == call.action[1]
           mine == {d \in hand : d.suit = trick[1].suit}
           beaters == {d \in mine : rank_value(d) > rank_value(trick[2])}
       IN  /\ trick[2].suit = trick[1].suit
           /\ rank_value(trick[2]) > rank_value(trick[1])
           /\ Cardinality(beaters) = 2
           /\ card = Lowest(beaters)
           /\ \E d \in beaters : rank_value(d) > rank_value(card)

\* The suits Defender1 holds for which the hand it is shown has the greatest
\* weakness score.
WeakestSuits(observation) ==
    LET held == {c.suit : c \in SeqSet(observation.legal_actions)}
        score(suit) == weakness_score(suit_cards(observation.dummy_hand, suit))
    IN  {X \in held : \A Y \in held : score(Y) <= score(X)}

\* C30: rule-based Defender1 holding no Ace and no King together with the
\* Queen of the same suit leads the highest-ranked card of the suit, among the
\* suits it holds, for which the partner-visible hand has the maximum weakness
\* score (4 - count) * 10 + (56 - sum of ranks), for every partner-visible
\* hand (those with many or high cards in all of Defender1's suits included).
C30_WeakestSuitLead ==
    \A c \in RuleCalls :
        LET hand == SeqSet(c[2].legal_actions)
        IN  (/\ c[1] = DEFENDER_1
             /\ \A d \in hand : d.rank # "A"
             /\ \A d \in hand : \A e \in hand :
                    ~(d.suit = e.suit /\ d.rank = "K" /\ e.rank = "Q"))
            => \E X \in WeakestSuits(c[2]) :
                   /\ c[3].suit = X
                   /\ \A d \in hand : d.suit = X => rank_value(d) <= rank_value(c[3])

\* C31: rule-based Dummy that can follow the led suit plays its lowest card of
\* the led suit both when the partner-visible (Lead) hand holds a led-suit card
\* outranking Defender1's card (even if Dummy itself could beat it) and when
\* neither Lead's hand nor Dummy's hand holds such a card.
C31_DummyPlaysLow ==
    \A c \in RuleCalls :
        LET d1_card == c[2].current_trick[1]
            mine == {d \in SeqSet(c[2].hand) : d.suit = d1_card.suit}
        IN  (/\ c[1] = DUMMY
             /\ Len(c[2].current_trick) = 1
             /\ mine # {}
             /\ \/ Beaters(c[2].dummy_hand, d1_card) # {}
                \/ Beaters(c[2].hand, d1_card) = {})
            => c[3] = Lowest(mine)

\* Dummy held two cards of the led suit that beat Defender1's, the Lead hand
\* held one too, and Dummy played the lower of its two.
C31_Witness ==
    /\ call # NoCall
    /\ call.action # None
    /\ call.player_type = DUMMY
    /\ LET observation == call.observation
           d1_card == observation.current_trick[1]
           card == call.action[1]
       IN  /\ Cardinality(Beaters(observation.hand, d1_card)) >= 2
           /\ Beaters(observation.dummy_hand, d1_card) # {}
           /\ card.suit = d1_card.suit
           /\ \A b \in Beaters(observation.hand, d1_card) :
                  rank_value(card) <= rank_value(b)
           /\ \E d \in SeqSet(observation.hand) :
                  d.suit # d1_card.suit /\ rank_value(d) < rank_value(card)

\* Neither Dummy nor the Lead hand could beat Defender1's card, and Dummy, with
\* two cards of the led suit, played the lower.
C31_WitnessNeither ==
    /\ call # NoCall
    /\ call.action # None
    /\ call.player_type = DUMMY
    /\ LET observation == call.observation
           d1_card == observation.current_trick[1]
           mine == {d \in SeqSet(observation.hand) : d.suit = d1_card.suit}
       IN  /\ Cardinality(mine) >= 2
           /\ Beaters(observation.hand, d1_card) = {}
           /\ Beaters(observation.dummy_hand, d1_card) = {}
           /\ call.action[1] = Lowest(mine)

\* The suits, in the order Spades, Hearts, Diamonds, Clubs, in which the Lead
\* hand shown to Dummy holds at least 3 cards and Dummy holds a card.
DiscardSuits(observation) ==
    SelectSeq(<<"S", "H", "D", "C">>,
        LAMBDA X :
            /\ Cardinality({d \in SeqSet(observation.dummy_hand) : d.suit = X}) >= 3
            /\ \E d \in SeqSet(observation.hand) : d.suit = X)

\* C32: rule-based Dummy that cannot follow the led suit discards the lowest
\* card of the first suit, in the order Spades, Hearts, Diamonds, Clubs, in
\* which the partner-visible (Lead) hand holds at least 3 cards and Dummy
\* holds at least one card; when no suit qualifies it discards a card of the
\* lowest rank in its whole hand.
C32_DummyDiscard ==
    \A c \in RuleCalls :
        LET hand == SeqSet(c[2].hand)
            suits == DiscardSuits(c[2])
        IN  (/\ c[1] = DUMMY
             /\ Len(c[2].current_trick) = 1
             /\ \A d \in hand : d.suit # c[2].current_trick[1].suit)
            => IF suits # <<>>
               THEN c[3] = Lowest({d \in hand : d.suit = suits[1]})
               ELSE /\ c[3] \in hand
                    /\ \A d \in hand : rank_value(c[3]) <= rank_value(d)

\* Dummy could not follow; the Lead hand held 3 cards in hearts and in clubs
\* but not in spades, Dummy held cards of all three, and it discarded its
\* lowest heart although it held a lower club.
C32_Witness ==
    /\ call # NoCall
    /\ call.action # None
    /\ call.player_type = DUMMY
    /\ LET observation == call.observation
           card == call.action[1]
       IN  /\ \A d \in SeqSet(observation.hand) :
                  d.suit # observation.current_trick[1].suit
           /\ Len(DiscardSuits(observation)) >= 2
           /\ DiscardSuits(observation)[1] = "H"
           /\ \E d \in SeqSet(observation.hand) : d.suit = "S"
           /\ card.suit = "H"
           /\ \E d \in SeqSet(observation.hand) :
                  d.suit = "C" /\ rank_value(d) < rank_value(card)

\* What play_trick requires of the observation it hands to the policy of seat
\* player_id.
SeatSeesItsTurn(player_id, observation) ==
    /\ observation.player_id = player_id
    /\ Len(observation.current_trick) = player_id
    /\ player_id # DEFENDER_1 => 1 \in DOMAIN observation.current_trick

LeadCanOvertake ==
    /\ observation_action_history[LEAD] # <<>>
    /\ LET observation == Last(observation_action_history[LEAD])[1]
           trick == observation.current_trick
       IN  /\ Len(trick) = 3
           /\ BestOfTrick(trick) \in {trick[1], trick[3]}
           /\ \E d \in SeqSet(observation.hand) :
                  /\ d.suit = trick[1].suit
                  /\ rank_value(d) > rank_value(BestOfTrick(trick))

\* C34: where seat 3 uses RuleBasedAgent, whenever after the first three plays
\* of a trick the best led-suit card belongs to a defender (position 0 or 2)
\* and seat 3 holds a led-suit card of higher rank, seat 3 plays a card that
\* wins the trick, and tricks_won[Lead] is the counter incremented for that
\* trick.
C34_LeadOvertakes ==
    \A c \in RuleCalls :
        LET trick == c[2].current_trick
            played == Append(trick, c[3])
        IN  (/\ c[1] = LEAD
             /\ Len(trick) = 3
             /\ BestOfTrick(trick) \in {trick[1], trick[3]}
             /\ \E d \in SeqSet(c[2].hand) :
                    /\ d.suit = trick[1].suit
                    /\ rank_value(d) > rank_value(BestOfTrick(trick)))
            => /\ WinsTrick(LEAD, played)
               /\ determine_trick_winner(played) = LEAD
               /\ tricks_won_after(played) = [tricks_won EXCEPT ![LEAD] = @ + 1]

\* Defender2 held the best card of the first three; Lead held a card of the
\* led suit below it and one above it, and Lead's card won the trick.
C34_Witness ==
    /\ call # NoCall
    /\ call.action # None
    /\ call.player_type = LEAD
    /\ LET trick == call.observation.current_trick
           mine == {d \in SeqSet(call.observation.hand) : d.suit = trick[1].suit}
       IN  /\ BestOfTrick(trick) = trick[3]
           /\ \E d \in mine : rank_value(d) < rank_value(trick[3])
           /\ \E d \in mine : rank_value(d) > rank_value(trick[3])
           /\ determine_trick_winner(Append(trick, call.action[1])) = LEAD

\* The same in the games of a GameRunner, at the step that resolves the trick:
\* the fourth card is the one Lead returned, it wins the trick, and
\* tricks_won[Lead] alone is incremented.
C34_InGame ==
    [][(/\ agents[LEAD] = "rule"
        /\ pc = "play_trick"
        /\ turn_i = TrickSize
        /\ trick_index' = trick_index + 1
        /\ LeadCanOvertake)
       => /\ Last(observation_action_history[LEAD])[1].current_trick
                 = SubSeq(current_trick, 1, 3)
          /\ Last(observation_action_history[LEAD])[2] = current_trick[4]
          /\ WinsTrick(LEAD, current_trick)
          /\ tricks_won'[LEAD] = tricks_won[LEAD] + 1
          /\ \A p \in Seats \ {LEAD} : tricks_won'[p] = tricks_won[p]]_vars

\* Rule-based Lead has overtaken a defender's best card in a trick of a game
\* that has just been resolved in its favour.
C34_WitnessInGame ==
    /\ agents[LEAD] = "rule"
    /\ LeadCanOvertake
    /\ pc \in {"play_game", "idle"}
    /\ trick_history # <<>>
    /\ Last(trick_history) = current_trick
    /\ Len(current_trick) = 4
    /\ Last(observation_action_history[LEAD])[1].current_trick
           = SubSeq(current_trick, 1, 3)
    /\ Last(observation_action_history[LEAD])[2] = current_trick[4]
    /\ tricks_won[LEAD] >= 1

====
